---- MODULE Spec2Model ----
(***************************************************************************)
(* Model of the ledger engine of project-diamond-hands:                    *)
(* engine::proccess_transactions (src/src/engine.rs) over the types of     *)
(* src/src/types.rs.  One action per match arm of the event loop, plus the *)
(* two ways the loop ends (a read error, the source running dry).          *)
(*                                                                         *)
(* Amounts are rust_decimal values; the model keeps them as integers of    *)
(* one fixed scale, in the range -DecimalMax..DecimalMax, and every        *)
(* checked_add / checked_sub fails outside that range as Decimal's do.     *)
(***************************************************************************)
EXTENDS Integers, FiniteSets, Sequences, TLC

\* ---------------------------------------------------------------- bounds
\* amounts a deposit or withdrawal may carry: -1 .. MaxAmount
MaxAmount == 1
\* the largest representable Decimal (Decimal::MAX, scaled down)
DecimalMax == 2
\* the number of items the event source yields at most
MaxEvents == 5
\* the same, for the longer runs of a single client
MaxEventsOneClient == 6

\* items of the input file in a run of the whole program
MaxEventsMain == 3
\* items of an input that is fixed before the run starts
MaxInput == 2

\* ----------------------------------------------------------------- types
\* u16 client ids and u32 tx ids: the engine only compares them for equality
\* and uses them as map keys, so two of each stand for all of them
ClientId == {1, 2}
TxId == {1, 2}
Amount == (0 - DecimalMax)..DecimalMax
EventAmount == (0 - 1)..MaxAmount
TxType == {"Deposit", "Withdrawal", "Dispute", "Resolve", "Chargeback"}

\* the amount column of a dispute, resolve or chargeback row: empty (zero), or
\* some other value the row happens to carry
RefAmount == {0, MaxAmount}

DepositEvents == [tx_type : {"Deposit"}, client : ClientId, tx : TxId, amount : EventAmount]

WithdrawalEvents == [tx_type : {"Withdrawal"}, client : ClientId, tx : TxId, amount : EventAmount]

DisputeEvents == [tx_type : {"Dispute"}, client : ClientId, tx : TxId, amount : RefAmount]

ResolveEvents == [tx_type : {"Resolve"}, client : ClientId, tx : TxId, amount : RefAmount]

ChargebackEvents == [tx_type : {"Chargeback"}, client : ClientId, tx : TxId, amount : RefAmount]

Transaction ==
    DepositEvents \cup WithdrawalEvents \cup DisputeEvents \cup ResolveEvents
    \cup ChargebackEvents

\* AccountDetails::default(): client 0, zero balances, unlocked
AccountDefault == [client |-> 0, available |-> 0, held |-> 0, total |-> 0, locked |-> FALSE]

new_with_balance(balance) ==
    [AccountDefault EXCEPT !.available = balance, !.total = balance]

\* Option<Decimal>: <<>> is None, <<x>> is Some(x)
None == <<>>

\* an addition that wraps around the range instead of reporting the overflow
wrapping_add(a, b) ==
    <<((a + b + DecimalMax) % (2 * DecimalMax + 1)) - DecimalMax>>

checked_add(a, b) == IF a + b \in Amount THEN <<a + b>> ELSE None

checked_sub(a, b) == IF a - b \in Amount THEN <<a - b>> ELSE None

\* ----------------------------------------------------------------- state
VARIABLES
    transactions,           \* the items of the event source when the run fixes them in
                            \* advance; <<>> where each item is drawn as it is pulled
    accounts,               \* Accounts: BTreeMap<ClientId, AccountDetails>
    deposit_history,        \* BTreeMap<TxId, Transaction>
    disputed_transactions,  \* HashSet<TxId>
    tx,                     \* the item the loop pulled last (tx_result; tx when it is Ok)
    result,                 \* "running", "Ok" or the message of the Err returned
    pulled,                 \* items pulled from the event source so far
    settled,                \* tx ids on which a Chargeback has been applied
    before,                 \* the table and the disputed set before the last event
    main,                   \* where fn main stands, or what it returned
    stdout                  \* the records main has handed to the csv writer on stdout

vars == <<transactions, accounts, deposit_history, disputed_transactions, tx, result,
          pulled, settled, before, main, stdout>>

Running == "running"
ReadError == "read error"

\* before the first item is pulled the loop holds no event
NoTx == [tx_type |-> "none", client |-> 0, tx |-> 0, amount |-> 0]

\* an Err item of the event source: it carries no event
ErrItem == [tx_type |-> "error", client |-> 0, tx |-> 0, amount |-> 0]

\* the shapes of the loop's locals
TypeOK ==
    /\ transactions \in Seq(Transaction \cup {ErrItem})
    /\ DOMAIN accounts \subseteq ClientId
    /\ \A c \in DOMAIN accounts :
          accounts[c] \in [client : {0}, available : Amount, held : Amount,
                           total : Amount, locked : BOOLEAN]
    /\ DOMAIN deposit_history \subseteq TxId
    /\ \A x \in DOMAIN deposit_history :
          deposit_history[x] \in DepositEvents /\ deposit_history[x].tx = x
    /\ disputed_transactions \subseteq TxId
    /\ tx \in Transaction \cup {NoTx, ErrItem}
    /\ pulled \in Nat
    /\ settled \subseteq TxId
    /\ DOMAIN before[1] \subseteq ClientId /\ before[2] \subseteq TxId
    /\ main \in STRING
    /\ stdout \in Seq([client : ClientId, available : Amount, held : Amount,
                       total : Amount, locked : BOOLEAN])

\* proccess_transactions has just been called (by main or by a test)
Init ==
    /\ transactions = <<>>
    /\ accounts = <<>>
    /\ deposit_history = <<>>
    /\ disputed_transactions = {}
    /\ tx = NoTx
    /\ result = Running
    /\ pulled = 0
    /\ settled = {}
    /\ before = <<accounts, disputed_transactions>>
    /\ main = "process"
    /\ stdout = <<>>

\* the loop pulls the next item of a source of at most `bound` items and it
\* is Ok(t)
PullWithin(bound, t) ==
    /\ result = Running
    /\ pulled < bound
    /\ pulled' = pulled + 1
    /\ tx' = t
    /\ before' = <<accounts, disputed_transactions>>
    /\ UNCHANGED <<transactions, main, stdout>>

Pull(t) == PullWithin(MaxEvents, t)

\* a checked operation whose failure is dropped: the loop goes on with the
\* table as the statements before it left it
Fail_GoesOn(msg, accts) ==
    /\ accounts' = accts
    /\ UNCHANGED <<deposit_history, disputed_transactions, result, settled>>

\* an `ok_or_else(...)?` that fails: the function returns Err(msg) with the
\* account table as the statements before it left it
Fail(msg, accts) ==
    /\ result' = msg
    /\ accounts' = accts
    /\ UNCHANGED <<deposit_history, disputed_transactions, settled>>

\* a guard that does not hold: the arm does nothing
Ignore == UNCHANGED <<accounts, deposit_history, disputed_transactions, result, settled>>

\* --------------------------------------------- variants of the guards
\* a Withdrawal guard that looks at total, held funds included
WithdrawalGuard_AgainstTotal(account, t) == t.amount <= account.total

\* a Resolve guard that does not compare the clients
ResolveGuard_AnyClient(account, original, t) ==
    /\ t.tx \in disputed_transactions
    /\ account.held >= original.amount

\* a Dispute guard that does not compare the clients
DisputeGuard_AnyClient(account, disputed_tx, t) ==
    account.available >= disputed_tx.amount

\* a Chargeback guard that does not ask whether the tx is under dispute
ChargebackGuard_NoDisputeCheck(account, original, t) ==
    /\ original.client = t.client
    /\ account.held >= original.amount

\* ------------------------------------------------------------ the guards
\* Withdrawal: if tx.amount <= account.availabe
WithdrawalGuard(account, t) == t.amount <= account.available

\* Dispute: disputed_tx.client == tx.client && account.availabe >= disputed_tx.amount
DisputeGuard(account, disputed_tx, t) ==
    /\ disputed_tx.client = t.client
    /\ account.available >= disputed_tx.amount

\* Resolve: original.client == tx.client && disputed_transactions.contains(&tx.tx)
\*          && account.held >= original.amount
ResolveGuard(account, original, t) ==
    /\ original.client = t.client
    /\ t.tx \in disputed_transactions
    /\ account.held >= original.amount

\* Chargeback: the same three conditions as Resolve
ChargebackGuard(account, original, t) ==
    /\ original.client = t.client
    /\ t.tx \in disputed_transactions
    /\ account.held >= original.amount

\* ------------------------------------------------- variants of the arms
\* a Withdrawal that debits available and forgets total
WithdrawalArm_AvailableOnly(t) ==
    IF t.client \in DOMAIN accounts /\ WithdrawalGuard(accounts[t.client], t)
    THEN LET account == accounts[t.client]
             a == checked_sub(account.available, t.amount)
         IN  IF a = None
             THEN Fail("Underflow in withdrawal available balance", accounts)
             ELSE /\ accounts' = [accounts EXCEPT ![t.client].available = a[1]]
                  /\ UNCHANGED <<deposit_history, disputed_transactions, result, settled>>
    ELSE Ignore

\* a Deposit that inserts a fresh account over the existing one
DepositArm_InsertFresh(t) ==
    /\ accounts' = (t.client :> new_with_balance(t.amount)) @@ accounts
    /\ deposit_history' = (t.tx :> t) @@ deposit_history
    /\ UNCHANGED <<disputed_transactions, result, settled>>

\* a Deposit that credits the account and forgets to record the deposit
DepositArm_NoHistory(t) ==
    IF t.client \in DOMAIN accounts
    THEN LET account == accounts[t.client]
             a == checked_add(account.available, t.amount)
         IN  IF a = None
             THEN Fail("Overflow in deposit available balance", accounts)
             ELSE LET acc1 == [account EXCEPT !.available = a[1]]
                      tot == checked_add(acc1.total, t.amount)
                  IN  IF tot = None
                      THEN Fail("Overflow in deposit total balance",
                                [accounts EXCEPT ![t.client] = acc1])
                      ELSE /\ accounts' = [accounts EXCEPT
                                              ![t.client] = [acc1 EXCEPT !.total = tot[1]]]
                           /\ UNCHANGED <<deposit_history, disputed_transactions,
                                          result, settled>>
    ELSE /\ accounts' = (t.client :> new_with_balance(t.amount)) @@ accounts
         /\ UNCHANGED <<deposit_history, disputed_transactions, result, settled>>

\* a Dispute that, finding no recorded deposit, holds the amount the event
\* itself carries
DisputeArm_UnknownTxUsesEventAmount(t) ==
    IF /\ t.client \in DOMAIN accounts
       /\ \/ t.tx \notin DOMAIN deposit_history
          \/ DisputeGuard(accounts[t.client], deposit_history[t.tx], t)
       /\ t.tx \in DOMAIN deposit_history \/ accounts[t.client].available >= t.amount
    THEN LET account == accounts[t.client]
             disputed_tx == IF t.tx \in DOMAIN deposit_history
                            THEN deposit_history[t.tx] ELSE t
             a == checked_sub(account.available, disputed_tx.amount)
         IN  IF a = None
             THEN Fail("Underflow in dispute available balance", accounts)
             ELSE LET acc1 == [account EXCEPT !.available = a[1]]
                      h == checked_add(acc1.held, disputed_tx.amount)
                  IN  IF h = None
                      THEN Fail("Overflow in dispute held balance",
                                [accounts EXCEPT ![t.client] = acc1])
                      ELSE /\ accounts' = [accounts EXCEPT
                                              ![t.client] = [acc1 EXCEPT !.held = h[1]]]
                           /\ disputed_transactions' = disputed_transactions \cup {t.tx}
                           /\ UNCHANGED <<deposit_history, result, settled>>
    ELSE Ignore

\* a Resolve that releases the funds and leaves the tx under dispute
ResolveArm_KeepsDisputed(t) ==
    IF /\ t.client \in DOMAIN accounts
       /\ t.tx \in DOMAIN deposit_history
       /\ ResolveGuard(accounts[t.client], deposit_history[t.tx], t)
    THEN LET account == accounts[t.client]
             original == deposit_history[t.tx]
             a == checked_add(account.available, original.amount)
         IN  IF a = None
             THEN Fail("Overflow in resolve available balance", accounts)
             ELSE LET acc1 == [account EXCEPT !.available = a[1]]
                      h == checked_sub(acc1.held, original.amount)
                  IN  IF h = None
                      THEN Fail("Underflow in resolve held balance",
                                [accounts EXCEPT ![t.client] = acc1])
                      ELSE /\ accounts' = [accounts EXCEPT
                                              ![t.client] = [acc1 EXCEPT !.held = h[1]]]
                           /\ UNCHANGED <<deposit_history, disputed_transactions,
                                          result, settled>>
    ELSE Ignore

\* a Deposit that keeps the entry an earlier Deposit recorded for its tx id
DepositArm_KeepsFirstEntry(t) ==
    IF t.client \in DOMAIN accounts
    THEN LET account == accounts[t.client]
             a == checked_add(account.available, t.amount)
         IN  IF a = None
             THEN Fail("Overflow in deposit available balance", accounts)
             ELSE LET acc1 == [account EXCEPT !.available = a[1]]
                      tot == checked_add(acc1.total, t.amount)
                  IN  IF tot = None
                      THEN Fail("Overflow in deposit total balance",
                                [accounts EXCEPT ![t.client] = acc1])
                      ELSE /\ accounts' = [accounts EXCEPT
                                              ![t.client] = [acc1 EXCEPT !.total = tot[1]]]
                           /\ deposit_history' = deposit_history @@ (t.tx :> t)
                           /\ UNCHANGED <<disputed_transactions, result, settled>>
    ELSE /\ accounts' = (t.client :> new_with_balance(t.amount)) @@ accounts
         /\ deposit_history' = deposit_history @@ (t.tx :> t)
         /\ UNCHANGED <<disputed_transactions, result, settled>>

\* a Withdrawal that opens an empty account for a client it does not know
WithdrawalArm_CreatesAccount(t) ==
    IF t.client \in DOMAIN accounts
    THEN IF WithdrawalGuard(accounts[t.client], t)
         THEN LET account == accounts[t.client]
                  tot == checked_sub(account.total, t.amount)
              IN  IF tot = None
                  THEN Fail("Underflow in withdrawal total balance", accounts)
                  ELSE LET acc1 == [account EXCEPT !.total = tot[1]]
                           a == checked_sub(acc1.available, t.amount)
                       IN  IF a = None
                           THEN Fail("Underflow in withdrawal available balance",
                                     [accounts EXCEPT ![t.client] = acc1])
                           ELSE /\ accounts' = [accounts EXCEPT
                                                   ![t.client] = [acc1 EXCEPT !.available = a[1]]]
                                /\ UNCHANGED <<deposit_history, disputed_transactions,
                                               result, settled>>
         ELSE Ignore
    ELSE /\ accounts' = (t.client :> AccountDefault) @@ accounts
         /\ UNCHANGED <<deposit_history, disputed_transactions, result, settled>>

\* a Chargeback that also forgets the deposit it charged back
ChargebackArm_ForgetsDeposit(t) ==
    IF /\ t.client \in DOMAIN accounts
       /\ t.tx \in DOMAIN deposit_history
       /\ ChargebackGuard(accounts[t.client], deposit_history[t.tx], t)
    THEN LET account == accounts[t.client]
             original == deposit_history[t.tx]
             tot == checked_sub(account.total, original.amount)
         IN  IF tot = None
             THEN Fail("Underflow in chargeback total balance", accounts)
             ELSE LET acc1 == [account EXCEPT !.total = tot[1]]
                      h == checked_sub(acc1.held, original.amount)
                  IN  IF h = None
                      THEN Fail("Underflow in chargeback held balance",
                                [accounts EXCEPT ![t.client] = acc1])
                      ELSE /\ accounts' = [accounts EXCEPT
                                              ![t.client] = [acc1 EXCEPT !.held = h[1],
                                                                         !.locked = TRUE]]
                           /\ disputed_transactions' = disputed_transactions \ {t.tx}
                           /\ settled' = settled \cup {t.tx}
                           /\ deposit_history' =
                                 [x \in DOMAIN deposit_history \ {t.tx} |-> deposit_history[x]]
                           /\ UNCHANGED result
    ELSE Ignore

\* a Resolve that closes every open dispute, not only its own
ResolveArm_ClearsDisputes(t) ==
    IF /\ t.client \in DOMAIN accounts
       /\ t.tx \in DOMAIN deposit_history
       /\ ResolveGuard(accounts[t.client], deposit_history[t.tx], t)
    THEN LET account == accounts[t.client]
             original == deposit_history[t.tx]
             a == checked_add(account.available, original.amount)
         IN  IF a = None
             THEN Fail("Overflow in resolve available balance", accounts)
             ELSE LET acc1 == [account EXCEPT !.available = a[1]]
                      h == checked_sub(acc1.held, original.amount)
                  IN  IF h = None
                      THEN Fail("Underflow in resolve held balance",
                                [accounts EXCEPT ![t.client] = acc1])
                      ELSE /\ accounts' = [accounts EXCEPT
                                              ![t.client] = [acc1 EXCEPT !.held = h[1]]]
                           /\ disputed_transactions' = {}
                           /\ UNCHANGED <<deposit_history, result, settled>>
    ELSE Ignore

\* a Resolve that releases all the funds held, not only its deposit's amount
ResolveArm_ReleasesAllHeld(t) ==
    IF /\ t.client \in DOMAIN accounts
       /\ t.tx \in DOMAIN deposit_history
       /\ ResolveGuard(accounts[t.client], deposit_history[t.tx], t)
    THEN LET account == accounts[t.client]
             a == checked_add(account.available, account.held)
         IN  IF a = None
             THEN Fail("Overflow in resolve available balance", accounts)
             ELSE /\ accounts' = [accounts EXCEPT
                                     ![t.client] = [account EXCEPT !.available = a[1],
                                                                   !.held = 0]]
                  /\ disputed_transactions' = disputed_transactions \ {t.tx}
                  /\ UNCHANGED <<deposit_history, result, settled>>
    ELSE Ignore

\* a Deposit that closes the dispute open on the tx id it reuses
DepositArm_ClosesDispute(t) ==
    IF t.client \in DOMAIN accounts
    THEN LET account == accounts[t.client]
             a == checked_add(account.available, t.amount)
         IN  IF a = None
             THEN Fail("Overflow in deposit available balance", accounts)
             ELSE LET acc1 == [account EXCEPT !.available = a[1]]
                      tot == checked_add(acc1.total, t.amount)
                  IN  IF tot = None
                      THEN Fail("Overflow in deposit total balance",
                                [accounts EXCEPT ![t.client] = acc1])
                      ELSE /\ accounts' = [accounts EXCEPT
                                              ![t.client] = [acc1 EXCEPT !.total = tot[1]]]
                           /\ deposit_history' = (t.tx :> t) @@ deposit_history
                           /\ disputed_transactions' = disputed_transactions \ {t.tx}
                           /\ UNCHANGED <<result, settled>>
    ELSE /\ accounts' = (t.client :> new_with_balance(t.amount)) @@ accounts
         /\ deposit_history' = (t.tx :> t) @@ deposit_history
         /\ disputed_transactions' = disputed_transactions \ {t.tx}
         /\ UNCHANGED <<result, settled>>

\* a Resolve that releases the amount the event carries
ResolveArm_UsesEventAmount(t) ==
    IF /\ t.client \in DOMAIN accounts
       /\ t.tx \in DOMAIN deposit_history
       /\ ResolveGuard(accounts[t.client], deposit_history[t.tx], t)
    THEN LET account == accounts[t.client]
             a == checked_add(account.available, t.amount)
         IN  IF a = None
             THEN Fail("Overflow in resolve available balance", accounts)
             ELSE LET acc1 == [account EXCEPT !.available = a[1]]
                      h == checked_sub(acc1.held, t.amount)
                  IN  IF h = None
                      THEN Fail("Underflow in resolve held balance",
                                [accounts EXCEPT ![t.client] = acc1])
                      ELSE /\ accounts' = [accounts EXCEPT
                                              ![t.client] = [acc1 EXCEPT !.held = h[1]]]
                           /\ disputed_transactions' = disputed_transactions \ {t.tx}
                           /\ UNCHANGED <<deposit_history, result, settled>>
    ELSE Ignore

\* a Chargeback that closes the account instead of locking it
ChargebackArm_ClosesAccount(t) ==
    IF /\ t.client \in DOMAIN accounts
       /\ t.tx \in DOMAIN deposit_history
       /\ ChargebackGuard(accounts[t.client], deposit_history[t.tx], t)
    THEN /\ accounts' = [c \in DOMAIN accounts \ {t.client} |-> accounts[c]]
         /\ disputed_transactions' = disputed_transactions \ {t.tx}
         /\ settled' = settled \cup {t.tx}
         /\ UNCHANGED <<deposit_history, result>>
    ELSE Ignore

\* -------------------------------------------------------------- the arms
\* TxType::Deposit
DepositArm(t) ==
    IF t.client \in DOMAIN accounts
    THEN LET account == accounts[t.client]
             a == checked_add(account.available, t.amount)
         IN  IF a = None
             THEN Fail("Overflow in deposit available balance", accounts)
             ELSE LET acc1 == [account EXCEPT !.available = a[1]]
                      tot == checked_add(acc1.total, t.amount)
                  IN  IF tot = None
                      THEN Fail("Overflow in deposit total balance",
                                [accounts EXCEPT ![t.client] = acc1])
                      ELSE /\ accounts' = [accounts EXCEPT
                                              ![t.client] = [acc1 EXCEPT !.total = tot[1]]]
                           /\ deposit_history' = (t.tx :> t) @@ deposit_history
                           /\ UNCHANGED <<disputed_transactions, result, settled>>
    ELSE /\ accounts' = (t.client :> new_with_balance(t.amount)) @@ accounts
         /\ deposit_history' = (t.tx :> t) @@ deposit_history
         /\ UNCHANGED <<disputed_transactions, result, settled>>

\* TxType::Withdrawal
WithdrawalArm(t) ==
    IF t.client \in DOMAIN accounts /\ WithdrawalGuard(accounts[t.client], t)
    THEN LET account == accounts[t.client]
             tot == checked_sub(account.total, t.amount)
         IN  IF tot = None
             THEN Fail("Underflow in withdrawal total balance", accounts)
             ELSE LET acc1 == [account EXCEPT !.total = tot[1]]
                      a == checked_sub(acc1.available, t.amount)
                  IN  IF a = None
                      THEN Fail("Underflow in withdrawal available balance",
                                [accounts EXCEPT ![t.client] = acc1])
                      ELSE /\ accounts' = [accounts EXCEPT
                                              ![t.client] = [acc1 EXCEPT !.available = a[1]]]
                           /\ UNCHANGED <<deposit_history, disputed_transactions,
                                          result, settled>>
    ELSE Ignore

\* TxType::Dispute
DisputeArm(t) ==
    IF /\ t.client \in DOMAIN accounts
       /\ t.tx \in DOMAIN deposit_history
       /\ DisputeGuard(accounts[t.client], deposit_history[t.tx], t)
    THEN LET account == accounts[t.client]
             disputed_tx == deposit_history[t.tx]
             a == checked_sub(account.available, disputed_tx.amount)
         IN  IF a = None
             THEN Fail("Underflow in dispute available balance", accounts)
             ELSE LET acc1 == [account EXCEPT !.available = a[1]]
                      h == checked_add(acc1.held, disputed_tx.amount)
                  IN  IF h = None
                      THEN Fail("Overflow in dispute held balance",
                                [accounts EXCEPT ![t.client] = acc1])
                      ELSE /\ accounts' = [accounts EXCEPT
                                              ![t.client] = [acc1 EXCEPT !.held = h[1]]]
                           /\ disputed_transactions' = disputed_transactions \cup {t.tx}
                           /\ UNCHANGED <<deposit_history, result, settled>>
    ELSE Ignore

\* TxType::Resolve
ResolveArm(t) ==
    IF /\ t.client \in DOMAIN accounts
       /\ t.tx \in DOMAIN deposit_history
       /\ ResolveGuard(accounts[t.client], deposit_history[t.tx], t)
    THEN LET account == accounts[t.client]
             original == deposit_history[t.tx]
             a == checked_add(account.available, original.amount)
         IN  IF a = None
             THEN Fail("Overflow in resolve available balance", accounts)
             ELSE LET acc1 == [account EXCEPT !.available = a[1]]
                      h == checked_sub(acc1.held, original.amount)
                  IN  IF h = None
                      THEN Fail("Underflow in resolve held balance",
                                [accounts EXCEPT ![t.client] = acc1])
                      ELSE /\ accounts' = [accounts EXCEPT
                                              ![t.client] = [acc1 EXCEPT !.held = h[1]]]
                           /\ disputed_transactions' = disputed_transactions \ {t.tx}
                           /\ UNCHANGED <<deposit_history, result, settled>>
    ELSE Ignore

\* TxType::Chargeback
ChargebackArm(t) ==
    IF /\ t.client \in DOMAIN accounts
       /\ t.tx \in DOMAIN deposit_history
       /\ ChargebackGuard(accounts[t.client], deposit_history[t.tx], t)
    THEN LET account == accounts[t.client]
             original == deposit_history[t.tx]
             tot == checked_sub(account.total, original.amount)
         IN  IF tot = None
             THEN Fail("Underflow in chargeback total balance", accounts)
             ELSE LET acc1 == [account EXCEPT !.total = tot[1]]
                      h == checked_sub(acc1.held, original.amount)
                  IN  IF h = None
                      THEN Fail("Underflow in chargeback held balance",
                                [accounts EXCEPT ![t.client] = acc1])
                      ELSE /\ accounts' = [accounts EXCEPT
                                              ![t.client] = [acc1 EXCEPT !.held = h[1],
                                                                         !.locked = TRUE]]
                           /\ disputed_transactions' = disputed_transactions \ {t.tx}
                           /\ settled' = settled \cup {t.tx}
                           /\ UNCHANGED <<deposit_history, result>>
    ELSE Ignore

\* ---------------------------------------------------------- the actions
Deposit == \E t \in DepositEvents : Pull(t) /\ DepositArm(t)

Withdrawal == \E t \in WithdrawalEvents : Pull(t) /\ WithdrawalArm(t)

Dispute == \E t \in DisputeEvents : Pull(t) /\ DisputeArm(t)

Resolve == \E t \in ResolveEvents : Pull(t) /\ ResolveArm(t)

Chargeback == \E t \in ChargebackEvents : Pull(t) /\ ChargebackArm(t)

\* a loop that skips an Err item and goes on with the next one
ReadFailureWithin_SkipsItem(bound) ==
    /\ result = Running
    /\ pulled < bound
    /\ pulled' = pulled + 1
    /\ tx' = ErrItem
    /\ UNCHANGED <<accounts, deposit_history, disputed_transactions, result, settled,
                   before, main, stdout, transactions>>

\* let tx = tx_result?; on an Err item: the error is returned at once
ReadFailureWithin(bound) ==
    /\ result = Running
    /\ pulled < bound
    /\ pulled' = pulled + 1
    /\ tx' = ErrItem
    /\ result' = ReadError
    /\ UNCHANGED <<accounts, deposit_history, disputed_transactions, settled,
                   before, main, stdout, transactions>>

ReadFailure == ReadFailureWithin(MaxEvents)

\* the source yields None: the loop ends and Ok(accounts) is returned
Finish ==
    /\ result = Running
    /\ result' = "Ok"
    /\ UNCHANGED <<accounts, deposit_history, disputed_transactions, tx, pulled, settled,
                   before, main, stdout, transactions>>

Next ==
    \/ Deposit
    \/ Withdrawal
    \/ Dispute
    \/ Resolve
    \/ Chargeback
    \/ ReadFailure
    \/ Finish

Spec == Init /\ [][Next]_vars

\* ------------------------------------------- runs over restricted inputs
\* the same loop fed only deposits and withdrawals of amount >= 0
NonNegative(S) == {t \in S : t.amount >= 0}

DepositNonNeg == \E t \in NonNegative(DepositEvents) : Pull(t) /\ DepositArm(t)

WithdrawalNonNeg == \E t \in NonNegative(WithdrawalEvents) : Pull(t) /\ WithdrawalArm(t)

NextNonNeg ==
    \/ DepositNonNeg
    \/ WithdrawalNonNeg
    \/ Dispute
    \/ Resolve
    \/ Chargeback
    \/ ReadFailure
    \/ Finish

SpecNonNeg == Init /\ [][NextNonNeg]_vars

\* the same loop fed the input the data model expects: amounts >= 0 and a
\* tx id used by at most one Deposit
DepositWellFormed ==
    \E t \in NonNegative(DepositEvents) :
        /\ t.tx \notin DOMAIN deposit_history
        /\ Pull(t)
        /\ DepositArm(t)

NextWellFormed ==
    \/ DepositWellFormed
    \/ WithdrawalNonNeg
    \/ Dispute
    \/ Resolve
    \/ Chargeback
    \/ ReadFailure
    \/ Finish

SpecWellFormed == Init /\ [][NextWellFormed]_vars

\* the same loop fed an input in which a tx id is used by at most one
\* Deposit, whatever the amounts are; a Deposit may carry the largest
\* amount there is, so that two Deposits can overflow an account
LargeDepositEvents ==
    [tx_type : {"Deposit"}, client : ClientId, tx : TxId,
     amount : EventAmount \cup {DecimalMax}]

DepositDistinctTx ==
    \E t \in LargeDepositEvents :
        /\ t.tx \notin DOMAIN deposit_history
        /\ Pull(t)
        /\ DepositArm(t)

NextDistinctTx ==
    \/ DepositDistinctTx
    \/ Withdrawal
    \/ Dispute
    \/ Resolve
    \/ Chargeback
    \/ ReadFailure
    \/ Finish

SpecDistinctTx == Init /\ [][NextDistinctTx]_vars

\* the same loop fed a longer input in which every event is of client 1
OneClient(S) == {t \in S : t.client = 1}

DepositOne ==
    \E t \in OneClient(DepositEvents) : PullWithin(MaxEventsOneClient, t) /\ DepositArm(t)

WithdrawalOne ==
    \E t \in OneClient(WithdrawalEvents) :
        PullWithin(MaxEventsOneClient, t) /\ WithdrawalArm(t)

DisputeOne ==
    \E t \in OneClient(DisputeEvents) : PullWithin(MaxEventsOneClient, t) /\ DisputeArm(t)

ResolveOne ==
    \E t \in OneClient(ResolveEvents) : PullWithin(MaxEventsOneClient, t) /\ ResolveArm(t)

ChargebackOne ==
    \E t \in OneClient(ChargebackEvents) :
        PullWithin(MaxEventsOneClient, t) /\ ChargebackArm(t)

ReadFailureOne == ReadFailureWithin(MaxEventsOneClient)

NextOneClient ==
    \/ DepositOne
    \/ WithdrawalOne
    \/ DisputeOne
    \/ ResolveOne
    \/ ChargebackOne
    \/ ReadFailureOne
    \/ Finish

SpecOneClient == Init /\ [][NextOneClient]_vars

\* ------------------------------------------- runs over an input fixed up front
\* the items a fixed input is made of: the events of one client and the Err item
InputItems == OneClient(Transaction) \cup {ErrItem}

\* proccess_transactions has just been called with a sequence of items
InitSource ==
    /\ transactions \in UNION {[1..n -> InputItems] : n \in 0..MaxInput}
    /\ accounts = <<>>
    /\ deposit_history = <<>>
    /\ disputed_transactions = {}
    /\ tx = NoTx
    /\ result = Running
    /\ pulled = 0
    /\ settled = {}
    /\ before = <<accounts, disputed_transactions>>
    /\ main = "process"
    /\ stdout = <<>>

\* an iterator that yields the items from the last one to the first
next_Reversed == transactions[Len(transactions) - pulled]

\* for tx_result in transactions: the item the iterator yields next
next == transactions[pulled + 1]

\* the loop pulls the next item of the input and it is an event of this kind
PullNext(kind) ==
    /\ pulled < Len(transactions)
    /\ next.tx_type = kind
    /\ PullWithin(Len(transactions), next)

DepositSource == PullNext("Deposit") /\ DepositArm(next)

WithdrawalSource == PullNext("Withdrawal") /\ WithdrawalArm(next)

DisputeSource == PullNext("Dispute") /\ DisputeArm(next)

ResolveSource == PullNext("Resolve") /\ ResolveArm(next)

ChargebackSource == PullNext("Chargeback") /\ ChargebackArm(next)

ReadFailureSource ==
    /\ pulled < Len(transactions)
    /\ next = ErrItem
    /\ ReadFailureWithin(Len(transactions))

\* the iterator yields None only after its last item
FinishSource == pulled = Len(transactions) /\ Finish

NextSource ==
    \/ DepositSource
    \/ WithdrawalSource
    \/ DisputeSource
    \/ ResolveSource
    \/ ChargebackSource
    \/ ReadFailureSource
    \/ FinishSource

\* the for loop does not stop between two items: a step that can be taken is
\* taken
SpecSource == InitSource /\ [][NextSource]_vars /\ WF_vars(NextSource)

\* ------------------------------------------------------------ the program
\* fn main is entered: proccess_transactions is not called yet
InitMain ==
    /\ transactions = <<>>
    /\ accounts = <<>>
    /\ deposit_history = <<>>
    /\ disputed_transactions = {}
    /\ tx = NoTx
    /\ result = Running
    /\ pulled = 0
    /\ settled = {}
    /\ before = <<accounts, disputed_transactions>>
    /\ main = "args"
    /\ stdout = <<>>

\* the locals of proccess_transactions
engine ==
    <<transactions, accounts, deposit_history, disputed_transactions, tx, result, pulled,
      settled, before>>

\* if args.len() < 2 { anyhow::bail!("Missing input file!") }
main_args ==
    /\ main = "args"
    /\ \E given \in BOOLEAN :
          main' = IF given THEN "open" ELSE "Missing input file!"
    /\ UNCHANGED <<engine, stdout>>

\* io::read_transactions_from_file(file_path)?: File::open succeeds or fails
read_transactions_from_file ==
    /\ main = "open"
    /\ \E opened \in BOOLEAN :
          main' = IF opened THEN "process" ELSE "Failed to open file"
    /\ UNCHANGED <<engine, stdout>>

\* a main that writes the table the engine had built when it failed
main_processed_WritesAnyway ==
    /\ main = "process"
    /\ result # Running
    /\ main' = "write"
    /\ UNCHANGED <<engine, stdout>>

\* let accounts = engine::proccess_transactions(transactions)?
main_processed ==
    /\ main = "process"
    /\ result # Running
    /\ main' = IF result = "Ok" THEN "write" ELSE result
    /\ UNCHANGED <<engine, stdout>>

\* the clients whose record the loop of the writer has not reached yet
Unwritten == DOMAIN accounts \ {stdout[i].client : i \in DOMAIN stdout}

\* one turn of the loop of write_accounts_as_csv_to_stdout, in key order:
\* account.client = client_id; writer.serialize(account)?
write_accounts_as_csv_to_stdout ==
    /\ main = "write"
    /\ Unwritten # {}
    /\ LET client_id == CHOOSE c \in Unwritten : \A d \in Unwritten : c <= d
           account == [accounts[client_id] EXCEPT !.client = client_id]
       IN  \E written \in BOOLEAN :
             IF written
             THEN stdout' = Append(stdout, account) /\ UNCHANGED main
             ELSE main' = "Failed to write record to stdout" /\ UNCHANGED stdout
    /\ UNCHANGED engine

\* writer.flush()?; Ok(())
flush ==
    /\ main = "write"
    /\ Unwritten = {}
    /\ \E flushed \in BOOLEAN :
          main' = IF flushed THEN "Ok" ELSE "Failed to flush output to stdout"
    /\ UNCHANGED <<engine, stdout>>

\* the steps of proccess_transactions when main has called it
DepositMain ==
    \E t \in DepositEvents :
        main = "process" /\ PullWithin(MaxEventsMain, t) /\ DepositArm(t)

WithdrawalMain ==
    \E t \in WithdrawalEvents :
        main = "process" /\ PullWithin(MaxEventsMain, t) /\ WithdrawalArm(t)

DisputeMain ==
    \E t \in DisputeEvents :
        main = "process" /\ PullWithin(MaxEventsMain, t) /\ DisputeArm(t)

ResolveMain ==
    \E t \in ResolveEvents :
        main = "process" /\ PullWithin(MaxEventsMain, t) /\ ResolveArm(t)

ChargebackMain ==
    \E t \in ChargebackEvents :
        main = "process" /\ PullWithin(MaxEventsMain, t) /\ ChargebackArm(t)

ReadFailureMain == main = "process" /\ ReadFailureWithin(MaxEventsMain)

FinishMain == main = "process" /\ Finish

NextMain ==
    \/ main_args
    \/ read_transactions_from_file
    \/ DepositMain
    \/ WithdrawalMain
    \/ DisputeMain
    \/ ResolveMain
    \/ ChargebackMain
    \/ ReadFailureMain
    \/ FinishMain
    \/ main_processed
    \/ write_accounts_as_csv_to_stdout
    \/ flush

SpecMain == InitMain /\ [][NextMain]_vars

\* ------------------------------------------------------------ vocabulary
\* the run has been aborted by a failed checked operation: the function has
\* returned Err and the account table no longer exists for any caller
ArithmeticError == result \notin {Running, "Ok", ReadError}

\* this step pulled an event of the given kinds and ran its arm
Step(kinds) ==
    /\ pulled' = pulled + 1
    /\ result' # ReadError
    /\ tx'.tx_type \in kinds

Balances(a) == <<a.available, a.held, a.total>>

RECURSIVE SumAmounts(_)
SumAmounts(S) ==
    IF S = {} THEN 0
    ELSE LET x == CHOOSE y \in S : TRUE
         IN  deposit_history[x].amount + SumAmounts(S \ {x})

\* the disputed tx ids whose recorded deposit belongs to client c
DisputedOf(c) ==
    {x \in disputed_transactions \cap DOMAIN deposit_history :
        deposit_history[x].client = c}

\* ------------------------------------------------------------------- C1
\* C1: after every processed event, every account of the table has
\* total = available + held.
C1_TotalIsAvailablePlusHeld ==
    ~ArithmeticError =>
        \A c \in DOMAIN accounts :
            accounts[c].total = accounts[c].available + accounts[c].held

\* an account with funds on both sides after a Dispute moved part of them
C1_Witness ==
    /\ result = Running
    /\ tx.tx_type = "Dispute"
    /\ tx.tx \in disputed_transactions
    /\ tx.client \in DOMAIN accounts
    /\ accounts[tx.client].held > 0
    /\ accounts[tx.client].available > 0

\* ------------------------------------------------------------------- C2
\* C2: after every processed event, whatever the sign of the amounts, every
\* account has available >= 0, held >= 0 and total >= 0.
C2_BalancesNeverNegative ==
    ~ArithmeticError =>
        \A c \in DOMAIN accounts :
            /\ accounts[c].available >= 0
            /\ accounts[c].held >= 0
            /\ accounts[c].total >= 0

\* ------------------------------------------------------------------- C3
\* C3: after every event, for every client, held equals the sum of the
\* recorded deposit amounts of that client's tx ids in the disputed set.
C3_HeldIsSumOfDisputed ==
    ~ArithmeticError =>
        \A c \in DOMAIN accounts : accounts[c].held = SumAmounts(DisputedOf(c))

\* ------------------------------------------------------------------- C4
\* C4: a Dispute of a tx id that is already in the disputed set changes no
\* account and leaves the disputed set as it was.
C4_RepeatedDisputeIsNoOp ==
    [][(Step({"Dispute"}) /\ tx'.tx \in disputed_transactions)
         => UNCHANGED <<accounts, disputed_transactions>>]_vars

\* ------------------------------------------------------------------- C5
\* C5: once a Chargeback of a tx id has been applied, every later Dispute,
\* Resolve or Chargeback of that tx id changes no account and leaves the
\* disputed set as it was (so the tx id is charged back at most once).
C5_ChargebackIsTerminal ==
    [][(Step({"Dispute", "Resolve", "Chargeback"}) /\ tx'.tx \in settled)
         => UNCHANGED <<accounts, disputed_transactions>>]_vars

\* ------------------------------------------------------------------- C6
\* C6: locked is monotonic: an account that is locked stays in the table and
\* stays locked through every step.
C6_LockedIsMonotonic ==
    [][\A c \in DOMAIN accounts :
          accounts[c].locked => (c \in DOMAIN accounts' /\ accounts'[c].locked)]_vars

\* a locked account to which a later Deposit has been applied
C6_Witness ==
    /\ result = Running
    /\ tx.tx_type = "Deposit"
    /\ tx.amount > 0
    /\ tx.client \in DOMAIN accounts
    /\ accounts[tx.client].locked
    /\ accounts[tx.client].available > 0

\* ------------------------------------------------------------------- C7
\* C7: once an account is locked, later events of any kind for that client
\* leave its available, held and total as they were.
C7_LockedAccountIsFrozen ==
    [][(/\ Step(TxType)
        /\ tx'.client \in DOMAIN accounts
        /\ accounts[tx'.client].locked)
         => Balances(accounts'[tx'.client]) = Balances(accounts[tx'.client])]_vars

\* ------------------------------------------------------------------- C8
\* the guard of Dispute as the claim words it, on the state before the event
C8_Guard(t) ==
    /\ t.tx \in DOMAIN deposit_history
    /\ deposit_history[t.tx].client = t.client
    /\ t.client \in DOMAIN accounts
    /\ accounts[t.client].available >= deposit_history[t.tx].amount

\* C8: a Dispute whose guard holds moves the recorded deposit amount from
\* available to held (total, locked and every other account unchanged) and
\* puts the tx id in the disputed set; any other Dispute changes nothing.
C8_DisputeEffect ==
    [][Step({"Dispute"}) =>
         IF C8_Guard(tx')
         THEN LET amt == deposit_history[tx'.tx].amount
              IN  /\ result' = Running
                  /\ accounts' = [accounts EXCEPT
                                     ![tx'.client].available = @ - amt,
                                     ![tx'.client].held = @ + amt]
                  /\ disputed_transactions' = disputed_transactions \cup {tx'.tx}
         ELSE UNCHANGED <<accounts, disputed_transactions, result>>]_vars

\* ------------------------------------------------------------------- C9
\* the guard of Resolve and of Chargeback as the claims word it
C9_Guard(t) ==
    /\ t.tx \in DOMAIN deposit_history
    /\ deposit_history[t.tx].client = t.client
    /\ t.tx \in disputed_transactions
    /\ t.client \in DOMAIN accounts
    /\ accounts[t.client].held >= deposit_history[t.tx].amount

\* C9: a Resolve whose guard holds moves the recorded deposit amount from held
\* to available (total, locked and every other account unchanged) and takes
\* the tx id out of the disputed set; any other Resolve changes nothing.
C9_ResolveEffect ==
    [][Step({"Resolve"}) =>
         IF C9_Guard(tx')
         THEN LET amt == deposit_history[tx'.tx].amount
              IN  /\ result' = Running
                  /\ accounts' = [accounts EXCEPT
                                     ![tx'.client].held = @ - amt,
                                     ![tx'.client].available = @ + amt]
                  /\ disputed_transactions' = disputed_transactions \ {tx'.tx}
         ELSE UNCHANGED <<accounts, disputed_transactions, result>>]_vars

\* ------------------------------------------------------------------ C10
\* C10: a Chargeback whose guard holds takes the recorded deposit amount off
\* held and total (available unchanged), locks the account and takes the tx id
\* out of the disputed set; any other Chargeback changes nothing.
C10_ChargebackEffect ==
    [][Step({"Chargeback"}) =>
         IF C9_Guard(tx')
         THEN LET amt == deposit_history[tx'.tx].amount
              IN  /\ result' = Running
                  /\ accounts' = [accounts EXCEPT
                                     ![tx'.client].held = @ - amt,
                                     ![tx'.client].total = @ - amt,
                                     ![tx'.client].locked = TRUE]
                  /\ disputed_transactions' = disputed_transactions \ {tx'.tx}
         ELSE UNCHANGED <<accounts, disputed_transactions, result>>]_vars

\* ------------------------------------------------------------------ C11
\* the guard of Withdrawal as the claim words it
C11_Guard(t) ==
    /\ t.client \in DOMAIN accounts
    /\ t.amount <= accounts[t.client].available

\* C11: a Withdrawal whose account exists and whose amount is at most
\* available (equal included) takes the amount off available and total and
\* leaves held, locked, the disputed set and the deposit history alone; any
\* other Withdrawal changes nothing, creates no account and returns no error.
C11_WithdrawalEffect ==
    [][Step({"Withdrawal"}) =>
         IF C11_Guard(tx')
         THEN /\ result' = Running
              /\ accounts' = [accounts EXCEPT
                                 ![tx'.client].available = @ - tx'.amount,
                                 ![tx'.client].total = @ - tx'.amount]
              /\ UNCHANGED <<deposit_history, disputed_transactions>>
         ELSE UNCHANGED <<accounts, deposit_history, disputed_transactions,
                          result>>]_vars

\* ------------------------------------------------------------------ C12
\* the table and the history after a Deposit that is applied
C12_Credited(t) ==
    IF t.client \in DOMAIN accounts
    THEN [accounts EXCEPT ![t.client].available = @ + t.amount,
                          ![t.client].total = @ + t.amount]
    ELSE (t.client :> new_with_balance(t.amount)) @@ accounts

\* one of the two additions of a Deposit leaves the balance range
C12_Overflows(t) ==
    /\ t.client \in DOMAIN accounts
    /\ \/ accounts[t.client].available + t.amount \notin Amount
       \/ accounts[t.client].total + t.amount \notin Amount

\* C12 as stated: every Deposit creates the account with available = total =
\* amount, held 0, unlocked, or adds the amount to available and total of the
\* existing account, records tx -> deposit in the history and leaves the
\* disputed set and the other accounts alone.  (Three Deposits of MaxAmount
\* to one client do not: the third one ends the run.)
C12_DepositEffect ==
    [][Step({"Deposit"}) =>
         /\ result' = Running
         /\ accounts' = C12_Credited(tx')
         /\ deposit_history' = (tx'.tx :> tx') @@ deposit_history
         /\ UNCHANGED disputed_transactions]_vars

\* C12 amended: the same, unless an addition on the existing account leaves
\* the balance range; then the run ends with an error and neither the history
\* nor the disputed set changes.
C12_DepositEffectInRange ==
    [][Step({"Deposit"}) =>
         IF C12_Overflows(tx')
         THEN /\ ArithmeticError'
              /\ UNCHANGED <<deposit_history, disputed_transactions>>
         ELSE /\ result' = Running
              /\ accounts' = C12_Credited(tx')
              /\ deposit_history' = (tx'.tx :> tx') @@ deposit_history
              /\ UNCHANGED disputed_transactions]_vars

\* a Deposit has been added to an account that has funds held
C12_Witness ==
    /\ result = Running
    /\ tx.tx_type = "Deposit"
    /\ tx.amount > 0
    /\ accounts[tx.client].total > tx.amount
    /\ accounts[tx.client].held > 0
    /\ deposit_history[tx.tx] = tx
    /\ \E c \in DOMAIN accounts : c # tx.client

\* ------------------------------------------------------------------ C13
\* C13: a Dispute, Resolve or Chargeback whose tx id has no entry in the
\* deposit history leaves every account, the history and the disputed set as
\* they are and does not end the run.
C13_UnknownTxIsNoOp ==
    [][Step({"Dispute", "Resolve", "Chargeback"})
         /\ tx'.tx \notin DOMAIN deposit_history
       => UNCHANGED <<accounts, deposit_history, disputed_transactions,
                      result>>]_vars

\* a Chargeback of a tx id never deposited has been processed for a client
\* with funds held under another, disputed deposit; the account is not locked
C13_Witness ==
    /\ result = Running
    /\ tx.tx_type = "Chargeback"
    /\ tx.tx \notin DOMAIN deposit_history
    /\ tx.client \in DOMAIN accounts
    /\ accounts[tx.client].held > 0
    /\ ~accounts[tx.client].locked
    /\ DisputedOf(tx.client) # {}

\* ------------------------------------------------------------------ C14
\* C14: a Dispute, Resolve or Chargeback whose client is not the client of the
\* recorded deposit changes neither client's account nor the disputed set,
\* whatever funds the client of the event has.
C14_ClientMismatchIsNoOp ==
    [][Step({"Dispute", "Resolve", "Chargeback"})
         /\ tx'.tx \in DOMAIN deposit_history
         /\ deposit_history[tx'.tx].client # tx'.client
       => UNCHANGED <<accounts, deposit_history, disputed_transactions,
                      result>>]_vars

\* a Dispute has been processed that names another client's deposit, sent by a
\* client whose available funds cover the recorded amount
C14_Witness ==
    /\ result = Running
    /\ tx.tx_type = "Dispute"
    /\ tx.tx \in DOMAIN deposit_history
    /\ deposit_history[tx.tx].client # tx.client
    /\ deposit_history[tx.tx].amount > 0
    /\ tx.client \in DOMAIN accounts
    /\ accounts[tx.client].available >= deposit_history[tx.tx].amount
    /\ tx.tx \notin disputed_transactions

\* ------------------------------------------------------------------ C15
\* C15: a Resolve or Chargeback of a tx id that is not in the disputed set
\* (never disputed, already resolved, already charged back) changes nothing;
\* so a Chargeback after a Resolve does not lock the account.
C15_NotDisputedIsNoOp ==
    [][Step({"Resolve", "Chargeback"})
         /\ tx'.tx \notin disputed_transactions
       => UNCHANGED <<accounts, deposit_history, disputed_transactions,
                      result>>]_vars

\* a Chargeback has been processed for the client's own deposit, which is not
\* under dispute, while the funds held would have covered it: the account is
\* still unlocked
C15_Witness ==
    /\ result = Running
    /\ tx.tx_type = "Chargeback"
    /\ tx.tx \in DOMAIN deposit_history
    /\ deposit_history[tx.tx].client = tx.client
    /\ deposit_history[tx.tx].amount > 0
    /\ tx.tx \notin disputed_transactions
    /\ accounts[tx.client].held >= deposit_history[tx.tx].amount
    /\ ~accounts[tx.client].locked

\* ------------------------------------------------------------------ C16
\* C16: when Resolve(client, tx) directly follows Resolve(client, tx), the
\* second one leaves the accounts, the history, the disputed set and the
\* result as the first one left them.
C16_ResolveIsIdempotent ==
    [][Step({"Resolve"})
         /\ tx.tx_type = "Resolve"
         /\ tx'.client = tx.client
         /\ tx'.tx = tx.tx
       => UNCHANGED <<accounts, deposit_history, disputed_transactions,
                      result>>]_vars

\* a Resolve of the client's own deposit has been processed, the dispute is
\* closed, funds are still held for another dispute, and the loop can pull
\* the same Resolve again
C16_Witness ==
    /\ result = Running
    /\ pulled < MaxEvents
    /\ tx.tx_type = "Resolve"
    /\ tx.tx \in DOMAIN deposit_history
    /\ deposit_history[tx.tx].client = tx.client
    /\ deposit_history[tx.tx].amount > 0
    /\ tx.tx \notin disputed_transactions
    /\ tx.tx \notin settled
    /\ accounts[tx.client].available >= deposit_history[tx.tx].amount
    /\ accounts[tx.client].held >= deposit_history[tx.tx].amount

\* ------------------------------------------------------------------ C17
\* C17: when the source yields an error item, processing stops there: the
\* error is the result, no table is returned (not even the one built by the
\* events before it), and after the error no item is pulled and nothing else
\* happens.
C17_FailFastOnReadError ==
    [][/\ result # ReadError
       /\ (pulled' = pulled + 1 /\ tx' = ErrItem)
          => /\ result' = ReadError
             /\ UNCHANGED <<accounts, deposit_history, disputed_transactions>>]_vars

\* an error item has ended a run that had already applied events
C17_Witness ==
    /\ result = ReadError
    /\ tx = ErrItem
    /\ pulled > 2
    /\ \E c \in DOMAIN accounts : accounts[c].total > 0

\* ------------------------------------------------------------------ C18
\* C18: no Withdrawal, Dispute, Resolve or Chargeback ends the run: whether
\* its guard holds or fails, the loop goes on to the next event, so a run
\* whose items are all read and in which no Deposit overflows returns the
\* table.
C18_OnlyDepositsEndTheRun ==
    [][Step({"Withdrawal", "Dispute", "Resolve", "Chargeback"})
       => result' = Running]_vars

\* ------------------------------------------------------------------ C19
\* C19: a Deposit to an existing account fails the run exactly when adding
\* its amount to available or to total leaves the balance range: the result
\* is then an error and stays one (no table is returned), and no balance of
\* a run that goes on holds a value the addition wrapped.
C19_DepositOverflowAborts ==
    [][/\ ~ArithmeticError
       /\ Step({"Deposit"}) =>
            (IF C12_Overflows(tx')
             THEN result' \in {"Overflow in deposit available balance",
                               "Overflow in deposit total balance"}
             ELSE /\ result' = Running
                  /\ \A c \in DOMAIN accounts :
                        LET amt == IF c = tx'.client THEN tx'.amount ELSE 0
                        IN  /\ accounts'[c].available = accounts[c].available + amt
                            /\ accounts'[c].total = accounts[c].total + amt)]_vars

\* a Deposit of a positive amount to an account at the top of the range has
\* ended the run
C19_Witness ==
    /\ result \in {"Overflow in deposit available balance",
                   "Overflow in deposit total balance"}
    /\ tx.tx_type = "Deposit"
    /\ tx.amount > 0
    /\ accounts[tx.client].total + tx.amount > DecimalMax

\* ------------------------------------------------------------------ C20
\* what a Dispute, Resolve or Chargeback may do to the table: nothing, or move
\* the recorded amount of its tx id on the account of the recorded client
C20_UsesRecordedDeposit(t) ==
    \/ UNCHANGED accounts
    \/ /\ t.tx \in DOMAIN deposit_history
       /\ deposit_history[t.tx].client = t.client
       /\ DOMAIN accounts' = DOMAIN accounts
       /\ \A c \in DOMAIN accounts :
             LET amt == deposit_history[t.tx].amount
                 Moved(old, new) == new - old \in {0 - amt, 0, amt}
             IN  IF c = t.client
                 THEN /\ Moved(accounts[c].available, accounts'[c].available)
                      /\ Moved(accounts[c].held, accounts'[c].held)
                      /\ Moved(accounts[c].total, accounts'[c].total)
                 ELSE accounts'[c] = accounts[c]

\* only a Deposit writes the history, and the events that refer to a tx id
\* act by the entry the history holds for it
C20_LaterEventsUseTheEntry ==
    /\ Step({"Withdrawal", "Dispute", "Resolve", "Chargeback"})
          => UNCHANGED deposit_history
    /\ Step({"Dispute", "Resolve", "Chargeback"})
          => C20_UsesRecordedDeposit(tx')

\* C20 as stated: a Deposit whose tx id is already in the history is not
\* rejected: it is credited, its entry replaces the earlier one, and the
\* Disputes, Resolves and Chargebacks that follow act by that entry.  (The
\* third of three Deposits of MaxAmount with one tx id is not credited.)
C20_ReusedTxIdIsCredited ==
    [][/\ (Step({"Deposit"}) /\ tx'.tx \in DOMAIN deposit_history)
          => /\ result' = Running
             /\ accounts' = C12_Credited(tx')
             /\ deposit_history' = [deposit_history EXCEPT ![tx'.tx] = tx']
       /\ C20_LaterEventsUseTheEntry]_vars

\* C20 amended: the same, unless crediting the Deposit leaves the balance
\* range; then the run ends with an error and the earlier entry stays.
C20_ReusedTxIdIsCreditedInRange ==
    [][/\ (Step({"Deposit"}) /\ tx'.tx \in DOMAIN deposit_history)
          => IF C12_Overflows(tx')
             THEN ArithmeticError' /\ UNCHANGED deposit_history
             ELSE /\ result' = Running
                  /\ accounts' = C12_Credited(tx')
                  /\ deposit_history' = [deposit_history EXCEPT ![tx'.tx] = tx']
       /\ C20_LaterEventsUseTheEntry]_vars

\* one tx id has been used by the Deposits of two clients: the first client
\* has its funds and no entry, the entry is the second client's, and the
\* second client's Dispute of that tx id has held the amount on its account
C20_Witness ==
    /\ result = Running
    /\ tx.tx_type = "Dispute"
    /\ DOMAIN deposit_history = {tx.tx}
    /\ deposit_history[tx.tx].client = tx.client
    /\ deposit_history[tx.tx].amount > 0
    /\ tx.tx \in disputed_transactions
    /\ accounts[tx.client].held = deposit_history[tx.tx].amount
    /\ \E c \in DOMAIN accounts : c # tx.client /\ accounts[c].available > 0

\* ------------------------------------------------------------------ C21
\* C21: the table starts empty, a Deposit adds its client to the table (if it
\* is not there yet), and nothing else adds or removes a client: the clients
\* of the table are the clients of the Deposits processed so far.
C21_AccountsComeFromDeposits ==
    /\ DOMAIN accounts = {}
    /\ [][DOMAIN accounts' =
             DOMAIN accounts \cup (IF Step({"Deposit"}) THEN {tx'.client} ELSE {})]_vars

\* a Withdrawal, Dispute, Resolve or Chargeback has been processed for a
\* client that has no account, while another client has one
C21_Witness ==
    /\ result = Running
    /\ tx.tx_type \in {"Withdrawal", "Dispute", "Resolve", "Chargeback"}
    /\ tx.client \notin DOMAIN accounts
    /\ DOMAIN accounts # {}

\* ------------------------------------------------------------------ C22
\* C22: the history starts empty; a Deposit the run processes puts tx ->
\* deposit into it (a Deposit that ends the run is not processed and records
\* nothing); no other step adds, changes or removes an entry, a Chargeback
\* of the tx that succeeds included.
C22_HistoryOnlyGrows ==
    /\ deposit_history = <<>>
    /\ [][IF Step({"Deposit"}) /\ result' = Running
          THEN deposit_history' = (tx'.tx :> tx') @@ deposit_history
          ELSE UNCHANGED deposit_history]_vars

\* a Chargeback has succeeded and the deposit it charged back is still in the
\* history
C22_Witness ==
    /\ result = Running
    /\ tx.tx_type = "Chargeback"
    /\ tx.tx \in settled
    /\ tx.tx \in DOMAIN deposit_history
    /\ deposit_history[tx.tx].client = tx.client
    /\ accounts[tx.client].locked

\* ------------------------------------------------------------------ C23
\* C23: an event changes no account but the one of its own client and the
\* disputed-set membership of no tx id but its own.
C23_OneAccountOneMembership ==
    [][Step(TxType) =>
         /\ DOMAIN accounts' \subseteq DOMAIN accounts \cup {tx'.client}
         /\ \A c \in DOMAIN accounts \ {tx'.client} :
               c \in DOMAIN accounts' /\ accounts'[c] = accounts[c]
         /\ \A x \in TxId \ {tx'.tx} :
               (x \in disputed_transactions') <=> (x \in disputed_transactions)]_vars

\* a Dispute has held funds of its client while another client has an
\* account with funds and another tx id is under dispute
C23_Witness ==
    /\ result = Running
    /\ tx.tx_type = "Dispute"
    /\ tx.tx \in disputed_transactions
    /\ tx.client \in DOMAIN accounts
    /\ accounts[tx.client].held > 0
    /\ \E x \in disputed_transactions : x # tx.tx
    /\ \E c \in DOMAIN accounts : c # tx.client /\ accounts[c].total > 0

\* ------------------------------------------------------------------ C24
\* C24: when the client has several deposits under dispute, a Resolve or
\* Chargeback that succeeds takes exactly the amount of its own deposit out
\* of held (into available for a Resolve, off total for a Chargeback) and
\* only its own tx id out of the disputed set: the other disputes stay open
\* and their amounts stay held.
C24_OnlyOwnAmountMoves ==
    [][(/\ Step({"Resolve", "Chargeback"})
        /\ C9_Guard(tx')
        /\ Cardinality(DisputedOf(tx'.client)) > 1
        /\ result' = Running)
       => LET c == tx'.client
              amt == deposit_history[tx'.tx].amount
          IN  /\ disputed_transactions' = disputed_transactions \ {tx'.tx}
              /\ UNCHANGED deposit_history
              /\ accounts'[c].held = accounts[c].held - amt
              /\ IF tx'.tx_type = "Resolve"
                 THEN /\ accounts'[c].available = accounts[c].available + amt
                      /\ accounts'[c].total = accounts[c].total
                      /\ accounts'[c].locked = accounts[c].locked
                 ELSE /\ accounts'[c].available = accounts[c].available
                      /\ accounts'[c].total = accounts[c].total - amt
                      /\ accounts'[c].locked]_vars

\* a Chargeback has taken one of two disputed deposits of a client off the
\* account: the other one is still under dispute and its amount is what is
\* held
C24_Witness ==
    /\ result = Running
    /\ tx.tx_type = "Chargeback"
    /\ tx.tx \in settled
    /\ tx.tx \notin disputed_transactions
    /\ deposit_history[tx.tx].client = tx.client
    /\ deposit_history[tx.tx].amount > 0
    /\ accounts[tx.client].locked
    /\ \E x \in DisputedOf(tx.client) :
          /\ deposit_history[x].amount > 0
          /\ accounts[tx.client].held = deposit_history[x].amount
          /\ accounts[tx.client].total = deposit_history[x].amount

\* ------------------------------------------------------------------ C25
\* C25: a tx id enters the disputed set only by a Dispute of it whose guard
\* holds and leaves it only by a Resolve or Chargeback of it whose guard
\* holds; no Deposit (one that reuses the tx id included), no Withdrawal and
\* no other step changes the set.
C25_DisputedSetLifecycle ==
    [][/\ disputed_transactions' \ disputed_transactions # {}
          => /\ Step({"Dispute"})
             /\ C8_Guard(tx')
             /\ disputed_transactions' = disputed_transactions \cup {tx'.tx}
       /\ disputed_transactions \ disputed_transactions' # {}
          => /\ Step({"Resolve", "Chargeback"})
             /\ C9_Guard(tx')
             /\ disputed_transactions' = disputed_transactions \ {tx'.tx}]_vars

\* a Deposit that reuses a tx id under dispute has been credited and the tx
\* id is still under dispute
C25_Witness ==
    /\ result = Running
    /\ tx.tx_type = "Deposit"
    /\ tx.amount > 0
    /\ deposit_history[tx.tx] = tx
    /\ tx.tx \in disputed_transactions

\* ------------------------------------------------------------------ C26
\* main has returned an error that arose before the table was to be written:
\* no path argument, the file not opened, an item not read, a balance out of
\* range
C26_FailedBeforeWriting ==
    main \notin {"args", "open", "process", "write", "Ok",
                 "Failed to write record to stdout",
                 "Failed to flush output to stdout"}

\* C26: a record is handed to the output only after proccess_transactions
\* has returned the table, that is after every item was read and processed;
\* when the engine returns an error main returns that error; and a program
\* that ended on a missing argument, an open failure, a read error or an
\* overflow has written no record.
C26_NoOutputOnFailure ==
    /\ stdout # <<>> => result = "Ok"
    /\ result \notin {Running, "Ok"} => main \in {"process", result}
    /\ C26_FailedBeforeWriting => stdout = <<>>

\* the program has ended on a Deposit overflow after building a table, and
\* has written nothing
C26_Witness ==
    /\ main \in {"Overflow in deposit available balance",
                 "Overflow in deposit total balance"}
    /\ \E c \in DOMAIN accounts : accounts[c].total > 0
    /\ stdout = <<>>

\* ------------------------------------------------------------------ C27
\* C27: when no Deposit and no Withdrawal carries a negative amount, no
\* account ever has a negative available, held or total, whatever tx ids
\* the Deposits reuse and whatever is disputed again or after a Chargeback.
C27_NonNegativeAmountsKeepBalances ==
    \A c \in DOMAIN accounts :
        LET account == accounts[c]
        IN  account.available >= 0 /\ account.held >= 0 /\ account.total >= 0

\* a deposit that was charged back has been disputed again with success: its
\* amount is held once more
C27_Witness ==
    /\ result = Running
    /\ tx.tx_type = "Dispute"
    /\ tx.tx \in settled
    /\ tx.tx \in disputed_transactions
    /\ deposit_history[tx.tx].client = tx.client
    /\ deposit_history[tx.tx].amount > 0
    /\ accounts[tx.client].held >= deposit_history[tx.tx].amount
    /\ accounts[tx.client].locked

\* ------------------------------------------------------------------ C28
\* C28: the checked operations of the Withdrawal, Dispute, Resolve and
\* Chargeback arms never fail: the only arithmetic error a run ends with is
\* the overflow of a Deposit.
C28_OnlyDepositOverflows ==
    ArithmeticError =>
        result \in {"Overflow in deposit available balance",
                    "Overflow in deposit total balance"}

\* ------------------------------------------------------------------ C29
\* the guard of an event, on the state before it
C29_Guard(t) ==
    CASE t.tx_type = "Deposit" -> TRUE
      [] t.tx_type = "Withdrawal" -> C11_Guard(t)
      [] t.tx_type = "Dispute" -> C8_Guard(t)
      [] t.tx_type \in {"Resolve", "Chargeback"} -> C9_Guard(t)

\* all the updates of an event
C29_AllApplied(t) ==
    LET c == t.client
        amt == IF t.tx_type \in {"Deposit", "Withdrawal"}
               THEN t.amount ELSE deposit_history[t.tx].amount
    IN  CASE t.tx_type = "Deposit" ->
               /\ accounts' = C12_Credited(t)
               /\ deposit_history' = (t.tx :> t) @@ deposit_history
               /\ UNCHANGED disputed_transactions
          [] t.tx_type = "Withdrawal" ->
               /\ accounts' = [accounts EXCEPT ![c].available = @ - amt,
                                               ![c].total = @ - amt]
               /\ UNCHANGED <<deposit_history, disputed_transactions>>
          [] t.tx_type = "Dispute" ->
               /\ accounts' = [accounts EXCEPT ![c].available = @ - amt,
                                               ![c].held = @ + amt]
               /\ disputed_transactions' = disputed_transactions \cup {t.tx}
               /\ UNCHANGED deposit_history
          [] t.tx_type = "Resolve" ->
               /\ accounts' = [accounts EXCEPT ![c].available = @ + amt,
                                               ![c].held = @ - amt]
               /\ disputed_transactions' = disputed_transactions \ {t.tx}
               /\ UNCHANGED deposit_history
          [] t.tx_type = "Chargeback" ->
               /\ accounts' = [accounts EXCEPT ![c].total = @ - amt,
                                               ![c].held = @ - amt,
                                               ![c].locked = TRUE]
               /\ disputed_transactions' = disputed_transactions \ {t.tx}
               /\ UNCHANGED deposit_history

\* C29: an event after which the run goes on has applied all of its updates
\* if its guard held in the state before it and none of them otherwise; and
\* once a checked operation has failed nothing follows: the table an event
\* left half updated is never returned.
C29_NoPartialApplication ==
    [][/\ ~ArithmeticError
       /\ (Step(TxType) /\ result' = Running) =>
            (IF C29_Guard(tx')
             THEN C29_AllApplied(tx')
             ELSE UNCHANGED <<accounts, deposit_history, disputed_transactions>>)]_vars

\* a Deposit has failed between its two additions: available is raised, total
\* is not, and the run has ended with the error
C29_Witness ==
    /\ result = "Overflow in deposit total balance"
    /\ tx.tx_type = "Deposit"
    /\ tx.amount > 0
    /\ accounts[tx.client].total # accounts[tx.client].available + accounts[tx.client].held

\* ------------------------------------------------------------------ C30
\* the last event was a Dispute whose guard held in the state before it
C30_DisputeSucceeded ==
    /\ result = Running
    /\ tx.tx_type = "Dispute"
    /\ tx.tx \in DOMAIN deposit_history
    /\ deposit_history[tx.tx].client = tx.client
    /\ tx.client \in DOMAIN before[1]
    /\ before[1][tx.client].available >= deposit_history[tx.tx].amount

\* C30: a Resolve(client, tx) that directly follows a Dispute(client, tx)
\* that succeeded gives back the table (available, held, total and locked
\* of every account) and the disputed set that held before the Dispute.
C30_DisputeResolveRoundTrip ==
    [][(/\ C30_DisputeSucceeded
        /\ Step({"Resolve"})
        /\ tx'.client = tx.client
        /\ tx'.tx = tx.tx)
       => /\ result' = Running
          /\ accounts' = before[1]
          /\ disputed_transactions' = before[2]]_vars

\* ------------------------------------------------------------------ C31
\* C31: the loop pulls the items one at a time and in the order of the
\* input: the n-th pull yields the n-th item, and only while the run is
\* going, that is after the item before it has been processed; the input is
\* not changed; the table is returned only after the last item; and every
\* run ends, after at most as many pulls as the input has items, with the
\* table or with an error.
C31_InOrderOnceAndTerminates ==
    /\ [](pulled <= Len(transactions))
    /\ [](result = "Ok" => pulled = Len(transactions))
    /\ [][/\ transactions' = transactions
          /\ pulled' # pulled =>
               /\ result = Running
               /\ pulled' = pulled + 1
               /\ tx' = transactions[pulled']]_vars
    /\ <>(result # Running)

\* the two items of an input, a Deposit and then a Withdrawal of its amount,
\* have been consumed in that order and the table has been returned: the
\* account is empty
C31_Witness ==
    /\ result = "Ok"
    /\ Len(transactions) = 2
    /\ pulled = 2
    /\ transactions[1].tx_type = "Deposit"
    /\ transactions[1].amount > 0
    /\ transactions[2].tx_type = "Withdrawal"
    /\ transactions[2].amount = transactions[1].amount
    /\ tx = transactions[2]
    /\ accounts[1].total = 0

\* ------------------------------------------------------------------ C32
\* C32: the step a Dispute, Resolve or Chargeback takes is the step the same
\* event takes with any other amount field: the table, the history, the
\* disputed set and the result after it are the same, so two runs that
\* differ only in these amount fields go through the same states.
C32_RefAmountHasNoInfluence ==
    [][/\ Step({"Dispute"}) =>
            \A a \in RefAmount : DisputeArm([tx' EXCEPT !.amount = a])
       /\ Step({"Resolve"}) =>
            \A a \in RefAmount : ResolveArm([tx' EXCEPT !.amount = a])
       /\ Step({"Chargeback"}) =>
            \A a \in RefAmount : ChargebackArm([tx' EXCEPT !.amount = a])]_vars

\* a Resolve that carries an amount of its own has released the amount of
\* the recorded deposit
C32_Witness ==
    /\ result = Running
    /\ tx.tx_type = "Resolve"
    /\ tx.amount > 0
    /\ tx.tx \in before[2]
    /\ tx.tx \notin disputed_transactions
    /\ deposit_history[tx.tx].amount > 0
    /\ accounts[tx.client].available =
          before[1][tx.client].available + deposit_history[tx.tx].amount

\* ------------------------------------------------------------------ C33
\* C33: the client of every deposit in the history has an account; so for a
\* Dispute, Resolve or Chargeback whose tx id has an entry and whose client
\* is the entry's client, the lookup of the client's account finds one: it
\* rejects nothing that the guards on entry, client, funds and dispute state
\* accept.
C33_DepositorsHaveAccounts ==
    /\ \A x \in DOMAIN deposit_history : deposit_history[x].client \in DOMAIN accounts
    /\ \A t \in DisputeEvents \cup ResolveEvents \cup ChargebackEvents :
          (t.tx \in DOMAIN deposit_history /\ deposit_history[t.tx].client = t.client)
             => t.client \in DOMAIN accounts

\* both clients have a deposit in the history, one of them charged back and
\* its account locked and empty
C33_Witness ==
    /\ result = Running
    /\ {deposit_history[x].client : x \in DOMAIN deposit_history} = ClientId
    /\ tx.tx_type = "Chargeback"
    /\ tx.tx \in settled
    /\ deposit_history[tx.tx].client = tx.client
    /\ accounts[tx.client].locked
    /\ accounts[tx.client].total = 0
    /\ before[1][tx.client].total > 0

\* ------------------------------------------------------------------ C34
\* what the engine holds about client c: its account, its deposits in the
\* history, and which of them are under dispute
C34_View(c) ==
    <<IF c \in DOMAIN accounts THEN <<accounts[c]>> ELSE <<>>,
      {deposit_history[x] : x \in {y \in DOMAIN deposit_history :
                                      deposit_history[y].client = c}},
      DisputedOf(c)>>

\* C34 as stated: when every Deposit has a tx id of its own, the events of
\* the other clients have no part in the final account of client c: they
\* leave what the engine holds about c as it is and the run goes on to
\* return it.  Violated: a Deposit of another client that overflows ends the
\* run, and no account is returned for c either (Deposit of client 2 of
\* DecimalMax, then a Deposit of client 2 of 1 under another tx id).
C34_OtherClientsNeverMatter ==
    [][Step(TxType) =>
         \A c \in ClientId \ {tx'.client} :
             UNCHANGED C34_View(c) /\ result' = Running]_vars

\* C34: when every Deposit has a tx id of its own, the events of the other
\* clients leave what the engine holds about client c as it is, whatever tx
\* ids they refer to; and an event of c that refers to a tx id c has not
\* deposited changes nothing, whether another client has deposited it or
\* nobody has.  So in a run that returns the accounts, the account of c is
\* the work of c's own events alone.
C34_ClientsAreIndependent ==
    [][Step(TxType) =>
         /\ \A c \in ClientId \ {tx'.client} : UNCHANGED C34_View(c)
         /\ (/\ tx'.tx_type \in {"Dispute", "Resolve", "Chargeback"}
             /\ \A e \in C34_View(tx'.client)[2] : e.tx # tx'.tx)
            => UNCHANGED <<accounts, deposit_history, disputed_transactions,
                           result>>]_vars

\* a client with funds held has sent a Chargeback of another client's
\* disputed deposit: that client's dispute is still open and its account is
\* not locked
C34_Witness ==
    /\ result = Running
    /\ tx.tx_type = "Chargeback"
    /\ tx.tx \in disputed_transactions
    /\ deposit_history[tx.tx].client # tx.client
    /\ deposit_history[tx.tx].amount > 0
    /\ tx.client \in DOMAIN accounts
    /\ accounts[tx.client].held >= deposit_history[tx.tx].amount
    /\ ~accounts[deposit_history[tx.tx].client].locked
    /\ accounts[deposit_history[tx.tx].client].held = deposit_history[tx.tx].amount

\* ------------------------------------------------------------------ C35
\* what the event t of the input owes to the total of client c: the amount
\* of a Deposit that was processed, less the amount of a Withdrawal whose
\* guard held, less the recorded amount of a Chargeback whose guard held,
\* and nothing for any other event
C35_Change(c, t, processed) ==
    IF t.client # c THEN 0
    ELSE IF t.tx_type = "Deposit"
         THEN IF processed THEN t.amount ELSE 0
    ELSE IF t.tx_type = "Withdrawal"
         THEN IF C11_Guard(t) THEN 0 - t.amount ELSE 0
    ELSE IF t.tx_type = "Chargeback"
         THEN IF C9_Guard(t) THEN 0 - deposit_history[t.tx].amount ELSE 0
    ELSE 0

C35_TotalOf(accts, c) == IF c \in DOMAIN accts THEN accts[c].total ELSE 0

\* C35: every event changes the total of every client by the amount of the
\* Deposit processed for it, by minus the amount of its Withdrawal whose
\* guard held, by minus the recorded deposit amount of its Chargeback whose
\* guard held, and by nothing otherwise: a Dispute and a Resolve never change
\* a total.  So each total is the sum of these over the events so far.
\* Violated by a Withdrawal of a negative amount: its guard holds, and when
\* the subtraction overflows the run ends with the total as it was (Deposit
\* of 1 twice for client 1, then its Withdrawal of -1).
C35_ConservationOfFunds ==
    [][Step(TxType) =>
         \A c \in ClientId :
             C35_TotalOf(accounts', c)
               = C35_TotalOf(accounts, c) + C35_Change(c, tx', result' = Running)]_vars

====
